---- MODULE Spec2Model ----
(***************************************************************************)
(* Model of coverage_ideogram.py: main() reads a reference (name -> length *)
(* per sequence), a BED interval file and a cytoband table, merges the     *)
(* intervals (bedtools sort | merge), extracts centromere and telomere     *)
(* landmarks, and plot_ideogram turns them into rectangles and labels, one *)
(* column per canonical chromosome, before saving the figure.              *)
(*                                                                         *)
(* Horizontal coordinates are kept in tenths of an axis unit (spacing 1.0  *)
(* is 10, chrom_width 0.4 is 4) and the y-limit in tenths of a base        *)
(* (max * 1.1 is max * 11), so that all arithmetic stays in the integers.  *)
(***************************************************************************)
EXTENDS Integers, Sequences, FiniteSets, TLC

\* ---------------------------------------------------------------- bounds
MaxCoord == 4        \* largest BED coordinate of the merge specification
MaxBed == 3          \* most BED records of the merge specification
OvCoord == 3         \* largest coordinate of the overlap specification
MaxBedOv == 2        \* most BED records of the overlap specification
CyCoord == 2         \* largest coordinate of the cytoband specification
MaxCyto == 3         \* most cytoband records of the cytoband specification
MainCoord == 2       \* largest coordinate of the layout specification
MaxChromLen == 2     \* largest reference sequence length
BadCoord == 2        \* largest coordinate of the malformed-input specification
MaxBedBad == 2       \* most BED records of the malformed-input specification
OtherCoord == 1      \* largest coordinate on the second chromosome (chr3)

\* ------------------------------------------------------ program constants
chromosomes ==
  << "chr1", "chr2", "chr3", "chr4", "chr5", "chr6", "chr7", "chr8",
     "chr9", "chr10", "chr11", "chr12", "chr13", "chr14", "chr15", "chr16",
     "chr17", "chr18", "chr19", "chr20", "chr21", "chr22", "chrX", "chrY" >>
chrom_width == 4
spacing == 10
LabelOffset == 10000000
YMarginTenths == 11

\* Sequence names the model's input files use: two canonical chromosomes
\* with an unused canonical slot between them, and one other contig.
RefNames == {"chr1", "chr3", "chrUn"}
BedChroms == {"chr1", "chr3"}

\* Byte order of sequence names, the order bedtools sort puts chromosomes in.
NameOrder ==
  << "chr1", "chr10", "chr11", "chr12", "chr13", "chr14", "chr15", "chr16",
     "chr17", "chr18", "chr19", "chr2", "chr20", "chr21", "chr22", "chr3",
     "chr4", "chr5", "chr6", "chr7", "chr8", "chr9", "chrUn", "chrX", "chrY" >>

\* ---------------------------------------------------------------- helpers
Max(a, b) == IF a >= b THEN a ELSE b
Min(a, b) == IF a <= b THEN a ELSE b
Range(s) == {s[i] : i \in 1..Len(s)}
SetMax(S) == CHOOSE m \in S : \A n \in S : n <= m
SetMin(S) == CHOOSE m \in S : \A n \in S : m <= n
SeqsUpTo(S, n) == UNION {[1..k -> S] : k \in 0..n}
Canonical == Range(chromosomes)
Idx(chrom) == CHOOSE i \in 1..Len(chromosomes) : chromosomes[i] = chrom
NameRank(chrom) == CHOOSE i \in 1..Len(NameOrder) : NameOrder[i] = chrom

VARIABLES pc, error, fasta_file, bed_file, cytoband_file, chrom_lengths,
          bed_coverage_dict, bedtool, centromeres, telomeres, prims, ylim,
          saved
vars == << pc, error, fasta_file, bed_file, cytoband_file, chrom_lengths,
           bed_coverage_dict, bedtool, centromeres, telomeres, prims, ylim,
           saved >>

Empty == [c \in {} |-> 0]

\* ------------------------------------------------------------ input files
BedRecs(chroms, maxc) ==
  {[chrom |-> c, start |-> s, end |-> e] :
     c \in chroms, s \in 0..maxc, e \in 0..maxc}
ValidBedRecs(chroms, maxc) == {r \in BedRecs(chroms, maxc) : r.start < r.end}
CytoRecs(chroms, maxc) ==
  {[chr |-> c, start |-> s, end |-> e, name |-> "band", gieStain |-> g] :
     c \in chroms, s \in 0..maxc, e \in 0..maxc, g \in {"acen", "gneg"}}
ValidCytoRecs(chroms, maxc) == {r \in CytoRecs(chroms, maxc) : r.start < r.end}
\* Records on chr1 up to maxc and on chr3 up to OtherCoord.
TwoChromBed(maxc) == ValidBedRecs({"chr1"}, maxc) \cup ValidBedRecs({"chr3"}, OtherCoord)
TwoChromCyto(maxc) == ValidCytoRecs({"chr1"}, maxc) \cup ValidCytoRecs({"chr3"}, OtherCoord)
FastaFiles(names, maxlen) ==
  UNION {[S -> 1..maxlen] : S \in SUBSET names}

\* -------------------------------------------------------- get_bed_coverage
RecLE(a, b) ==
  \/ NameRank(a.chrom) < NameRank(b.chrom)
  \/ a.chrom = b.chrom /\ a.start <= b.start

RECURSIVE Insert(_, _)
Insert(r, s) ==
  IF s = << >> THEN << r >>
  ELSE IF RecLE(Head(s), r) THEN << Head(s) >> \o Insert(r, Tail(s))
  ELSE << r >> \o s

RECURSIVE Sort(_)
Sort(s) == IF s = << >> THEN << >> ELSE Insert(s[Len(s)], Sort(SubSeq(s, 1, Len(s) - 1)))

MergeableStrict(cur, rec) == rec.chrom = cur.chrom /\ rec.start < cur.end
Mergeable(cur, rec) == rec.chrom = cur.chrom /\ rec.start <= cur.end

ExtendLast(cur, rec) == [cur EXCEPT !.end = rec.end]
Extend(cur, rec) == [cur EXCEPT !.end = Max(cur.end, rec.end)]

RECURSIVE MergeScanPrev(_, _, _, _)
MergeScanPrev(recs, i, cur, out) ==
  IF i > Len(recs) THEN Append(out, cur)
  ELSE IF recs[i].chrom = cur.chrom /\ recs[i].start <= recs[i - 1].end
       THEN MergeScanPrev(recs, i + 1, Extend(cur, recs[i]), out)
       ELSE MergeScanPrev(recs, i + 1, recs[i], Append(out, cur))

RECURSIVE MergeScan(_, _, _, _)
MergeScan(recs, i, cur, out) ==
  IF i > Len(recs) THEN Append(out, cur)
  ELSE IF Mergeable(cur, recs[i])
       THEN MergeScan(recs, i + 1, Extend(cur, recs[i]), out)
       ELSE MergeScan(recs, i + 1, recs[i], Append(out, cur))

Merge(recs) == IF recs = << >> THEN << >> ELSE MergeScan(recs, 2, recs[1], << >>)

\* chr_covered.setdefault(chrom, []).append((start, end)) over the features
CoverageDict(bed) ==
  [c \in {bed[i].chrom : i \in 1..Len(bed)} |->
     LET own == SelectSeq(bed, LAMBDA r : r.chrom = c)
     IN [i \in 1..Len(own) |-> << own[i].start, own[i].end >>]]

\* ------------------------------------------------------- get_cytoband_info
\* Values of a column in order of first appearance (pandas unique()).
RECURSIVE Unique(_)
Unique(s) ==
  IF s = << >> THEN << >>
  ELSE LET rest == Unique(SubSeq(s, 1, Len(s) - 1))
       IN IF s[Len(s)] \in Range(rest) THEN rest ELSE Append(rest, s[Len(s)])

ChrColumn(df) == [i \in 1..Len(df) |-> df[i].chr]
RowsOf(df, chrom) == SelectSeq(df, LAMBDA r : r.chr = chrom)

CentromereFirstRow(subdf) == << subdf[1].start, subdf[1].end >>
CentromereOf(subdf) ==
  << SetMin({subdf[i].start : i \in 1..Len(subdf)}),
     SetMax({subdf[i].end : i \in 1..Len(subdf)}) >>

TelomeresByCoordinate(subdf) ==
  LET lo == CHOOSE i \in 1..Len(subdf) : \A j \in 1..Len(subdf) : subdf[i].start <= subdf[j].start
      hi == CHOOSE i \in 1..Len(subdf) : \A j \in 1..Len(subdf) : subdf[j].end <= subdf[i].end
  IN << << subdf[lo].start, subdf[lo].end >>, << subdf[hi].start, subdf[hi].end >> >>
TelomeresOf(subdf) ==
  << << subdf[1].start, subdf[1].end >>,
     << subdf[Len(subdf)].start, subdf[Len(subdf)].end >> >>

centromere_positions(df) ==
  LET acen == SelectSeq(df, LAMBDA r : r.gieStain = "acen")
  IN [chrom \in Range(Unique(ChrColumn(acen))) |-> CentromereOf(RowsOf(acen, chrom))]

telomere_positions(df) ==
  [chrom \in {c \in Range(Unique(ChrColumn(df))) : RowsOf(df, c) # << >>} |->
     TelomeresOf(RowsOf(df, chrom))]

\* ------------------------------------------------------------ check_overlap
\* Number of bases a feature shares with the region (negative: a gap).
OverlapBases(a, region) == Min(a.end, region[3]) - Max(a.start, region[2])

OverlapsOrTouches(a, region) == a.chrom = region[1] /\ OverlapBases(a, region) >= 0
Overlaps(a, region) == a.chrom = region[1] /\ OverlapBases(a, region) > 0

\* bedtool.intersect(region_bed, u=True): the features with any overlap
intersect_u(bed, region) == SelectSeq(bed, LAMBDA a : Overlaps(a, region))
check_overlap(bed, region) == Len(intersect_u(bed, region)) > 0

\* ------------------------------------------------------------ plot_ideogram
Rectangle(x, y, width, height, color) ==
  [kind |-> "Rectangle", x |-> x, y |-> y, width |-> width, height |-> height,
   color |-> color]
Text(x, y, s) == [kind |-> "Text", x |-> x, y |-> y, s |-> s]

\* A column counted over the chromosomes present only.
ColumnXCompact(idx) ==
  (Cardinality({j \in 1..idx : chromosomes[j] \in DOMAIN chrom_lengths}) - 1) * spacing
\* x = idx * spacing, idx counted from 0 by enumerate
ColumnX(idx) == (idx - 1) * spacing

CoveredRects(x, chrom) ==
  IF chrom \in DOMAIN bed_coverage_dict
  THEN [i \in 1..Len(bed_coverage_dict[chrom]) |->
          LET iv == bed_coverage_dict[chrom][i]
          IN Rectangle(x, iv[1], chrom_width, iv[2] - iv[1], "navy")]
  ELSE << >>

CentromereRects(x, chrom) ==
  IF chrom \in DOMAIN centromeres
  THEN LET cstart == centromeres[chrom][1]
           cend == centromeres[chrom][2]
           covered == check_overlap(bedtool, << chrom, cstart, cend >>)
       IN << Rectangle(x, cstart, chrom_width, cend - cstart,
                       IF covered THEN "red" ELSE "#ffcccc") >>
  ELSE << >>

TelomereRects(x, chrom) ==
  IF chrom \in DOMAIN telomeres
  THEN LET tel_start == telomeres[chrom][1]
           tel_end == telomeres[chrom][2]
           covered_start == check_overlap(bedtool, << chrom, tel_start[1], tel_start[2] >>)
           covered_end == check_overlap(bedtool, << chrom, tel_end[1], tel_end[2] >>)
       IN << Rectangle(x, tel_start[1], chrom_width, tel_start[2] - tel_start[1],
                       IF covered_start THEN "green" ELSE "#ccffcc"),
             Rectangle(x, tel_end[1], chrom_width, tel_end[2] - tel_end[1],
                       IF covered_end THEN "green" ELSE "#ccffcc") >>
  ELSE << >>

\* One iteration of the loop over enumerate(chromosomes).
PlotChrom(idx) ==
  LET chrom == chromosomes[idx]
      x == ColumnX(idx)
  IN IF chrom \notin DOMAIN chrom_lengths THEN << >>
     ELSE << Rectangle(x, 0, chrom_width, chrom_lengths[chrom], "lightgray") >>
          \o CoveredRects(x, chrom)
          \o CentromereRects(x, chrom)
          \o TelomereRects(x, chrom)
          \o << Text(x + chrom_width \div 2, chrom_lengths[chrom] + LabelOffset, chrom) >>

RECURSIVE PlotAll(_)
PlotAll(n) == IF n = 0 THEN << >> ELSE PlotAll(n - 1) \o PlotChrom(n)

\* max(chrom_lengths.values()) * 1.1, in tenths of a base
YLimTop(lengths) == SetMax({lengths[c] : c \in DOMAIN lengths}) * YMarginTenths

\* ----------------------------------------------------------------- actions
InitWith(fastas, beds, cytos) ==
  /\ pc = "get_chrom_lengths"
  /\ error = "none"
  /\ fasta_file \in fastas
  /\ bed_file \in beds
  /\ cytoband_file \in cytos
  /\ chrom_lengths = Empty
  /\ bed_coverage_dict = Empty
  /\ bedtool = << >>
  /\ centromeres = Empty
  /\ telomeres = Empty
  /\ prims = << >>
  /\ ylim = << 0, 10 >>
  /\ saved = FALSE

\* chrom_lengths = get_chrom_lengths(args.fasta).  What pyfaidx does with a
\* reference holding no sequence is not fixed by this program: it either
\* raises or yields an empty mapping.
GetChromLengths ==
  /\ pc = "get_chrom_lengths"
  /\ \E raises \in (IF DOMAIN fasta_file = {} THEN BOOLEAN ELSE {FALSE}) :
       IF raises
       THEN /\ pc' = "error"
            /\ error' = "FastaError"
            /\ UNCHANGED chrom_lengths
       ELSE /\ pc' = "get_bed_coverage"
            /\ chrom_lengths' = fasta_file
            /\ UNCHANGED error
  /\ UNCHANGED << fasta_file, bed_file, cytoband_file, bed_coverage_dict,
                  bedtool, centromeres, telomeres, prims, ylim, saved >>

\* bed_coverage_dict, bedtool = get_bed_coverage(args.bed).  bedtools stops
\* with an error on a record whose start is greater than its end and accepts
\* a record whose start equals its end as a zero-length feature, carried
\* here by its coordinates as written.
GetBedCoverage ==
  /\ pc = "get_bed_coverage"
  /\ IF \E i \in 1..Len(bed_file) : bed_file[i].start > bed_file[i].end
     THEN /\ pc' = "error"
          /\ error' = "BEDToolsError"
          /\ UNCHANGED << bedtool, bed_coverage_dict >>
     ELSE /\ pc' = "get_cytoband_info"
          /\ bedtool' = Merge(Sort(bed_file))
          /\ bed_coverage_dict' = CoverageDict(bedtool')
          /\ UNCHANGED error
  /\ UNCHANGED << fasta_file, bed_file, cytoband_file, chrom_lengths,
                  centromeres, telomeres, prims, ylim, saved >>

\* centromeres, telomeres = get_cytoband_info(args.cytoband)
GetCytobandInfo ==
  /\ pc = "get_cytoband_info"
  /\ pc' = "plot_ideogram"
  /\ centromeres' = centromere_positions(cytoband_file)
  /\ telomeres' = telomere_positions(cytoband_file)
  /\ UNCHANGED << error, fasta_file, bed_file, cytoband_file, chrom_lengths,
                  bed_coverage_dict, bedtool, prims, ylim, saved >>

\* plot_ideogram(...): the drawing loop, then the axis limits, then savefig.
\* max() of an empty mapping raises ValueError before savefig is reached.
PlotIdeogram ==
  /\ pc = "plot_ideogram"
  /\ prims' = PlotAll(Len(chromosomes))
  /\ IF DOMAIN chrom_lengths = {}
     THEN /\ pc' = "error"
          /\ error' = "ValueError"
          /\ UNCHANGED << ylim, saved >>
     ELSE /\ pc' = "done"
          /\ ylim' = << 0, YLimTop(chrom_lengths) >>
          /\ saved' = TRUE
          /\ UNCHANGED error
  /\ UNCHANGED << fasta_file, bed_file, cytoband_file, chrom_lengths,
                  bed_coverage_dict, bedtool, centromeres, telomeres >>

Next == GetChromLengths \/ GetBedCoverage \/ GetCytobandInfo \/ PlotIdeogram

\* --------------------------------------------------------- specifications
OneFasta == {[c \in {"chr1", "chr3"} |-> MaxChromLen]}
OneBed == {<< [chrom |-> "chr1", start |-> 0, end |-> 1] >>}
OneCyto == {<< [chr |-> "chr1", start |-> 0, end |-> 1, name |-> "band", gieStain |-> "gneg"] >>}

\* Layout: every reference over RefNames, at most one interval and exactly
\* one cytoband record, on any of the names.
Init ==
  InitWith(FastaFiles(RefNames, MaxChromLen),
           SeqsUpTo(ValidBedRecs(RefNames, MainCoord), 1),
           [1..1 -> ValidCytoRecs(RefNames, MainCoord)])
Spec == Init /\ [][Next]_vars

\* Merge: every sequence of valid intervals up to MaxBed records.
InitMerge ==
  InitWith(OneFasta, SeqsUpTo(TwoChromBed(MaxCoord), MaxBed), OneCyto)
SpecMerge == InitMerge /\ [][Next]_vars

\* Overlap: interval files against single-record cytoband tables of chr1,
\* whose one record is both telomeres and, when acen, the centromere.
InitOverlap ==
  InitWith(OneFasta, SeqsUpTo(TwoChromBed(OvCoord), MaxBedOv),
           [1..1 -> ValidCytoRecs({"chr1"}, OvCoord)])
SpecOverlap == InitOverlap /\ [][Next]_vars

\* Cytoband: every table of one to MaxCyto records.
InitCyto ==
  InitWith(OneFasta, OneBed,
           SeqsUpTo(TwoChromCyto(CyCoord), MaxCyto) \ {<< >>})
SpecCyto == InitCyto /\ [][Next]_vars

\* Malformed: interval files whose records may have start >= end.
InitMalformed ==
  InitWith(OneFasta, SeqsUpTo(BedRecs(BedChroms, BadCoord), MaxBedBad), OneCyto)
SpecMalformed == InitMalformed /\ [][Next]_vars

\* ------------------------------------------------------------- properties
\* get_bed_coverage has returned.
Merged == pc \in {"get_cytoband_info", "plot_ideogram", "done"}
\* get_cytoband_info has returned.
Extracted == pc \in {"plot_ideogram", "done"}
\* The canonical chromosomes the reference holds.
Displayed == {c \in Canonical : c \in DOMAIN chrom_lengths}
InputChroms == {bed_file[i].chrom : i \in 1..Len(bed_file)}
AllNames == Canonical \cup RefNames

\* C1: in the merged coverage of every chromosome, each interval ends
\* strictly before the next one starts: no two output intervals of a
\* chromosome overlap or touch, and they are in increasing order of start.
C1_MergedGaps ==
  Merged =>
    \A c \in DOMAIN bed_coverage_dict :
      \A i \in 1..(Len(bed_coverage_dict[c]) - 1) :
        bed_coverage_dict[c][i][2] < bed_coverage_dict[c][i + 1][1]

\* Two input intervals of one chromosome touch, and that chromosome still
\* has two merged intervals.
C1_Witness ==
  /\ Merged
  /\ \E i, j \in 1..Len(bed_file) :
       /\ bed_file[i].chrom = bed_file[j].chrom
       /\ bed_file[i].end = bed_file[j].start
       /\ Len(bed_coverage_dict[bed_file[i].chrom]) >= 2

InInput(c, p) ==
  \E i \in 1..Len(bed_file) :
    bed_file[i].chrom = c /\ bed_file[i].start <= p /\ p < bed_file[i].end
InMerged(c, p) ==
  /\ c \in DOMAIN bed_coverage_dict
  /\ \E i \in 1..Len(bed_coverage_dict[c]) :
       bed_coverage_dict[c][i][1] <= p /\ p < bed_coverage_dict[c][i][2]

\* C3: for valid input intervals the merged coverage covers exactly the
\* input's base positions, chromosome by chromosome, and only chromosomes
\* with an input interval appear in it.
C3_SameCoverage ==
  Merged =>
    /\ \A c \in RefNames : \A p \in 0..(MaxCoord + 1) : InMerged(c, p) <=> InInput(c, p)
    /\ DOMAIN bed_coverage_dict = InputChroms

\* An input interval lies strictly inside an earlier-starting one, so the
\* open interval's end must not shrink when it is absorbed.
C3_Witness ==
  /\ Merged
  /\ \E i, j \in 1..Len(bed_file) :
       /\ bed_file[i].chrom = bed_file[j].chrom
       /\ bed_file[i].start < bed_file[j].start
       /\ bed_file[j].end < bed_file[i].end
       /\ InMerged(bed_file[i].chrom, bed_file[i].end - 1)

\* C8: merging the merged intervals again gives the same intervals in the
\* same order, for every chromosome.
C8_Idempotent ==
  Merged =>
    /\ Merge(Sort(bedtool)) = bedtool
    /\ CoverageDict(Merge(Sort(bedtool))) = bed_coverage_dict

\* The first merge joined some records and left at least two intervals.
C8_Witness ==
  /\ Merged
  /\ Len(bedtool) >= 2
  /\ Len(bedtool) < Len(bed_file)

\* The overlap test of the claim, on the merged coverage of the chromosome.
SharesBase(c, start, end) ==
  /\ c \in DOMAIN bed_coverage_dict
  /\ \E i \in 1..Len(bed_coverage_dict[c]) :
       start < bed_coverage_dict[c][i][2] /\ bed_coverage_dict[c][i][1] < end

IsLandmark(p) == p.kind = "Rectangle" /\ p.color \in {"red", "#ffcccc", "green", "#ccffcc"}

\* C2: check_overlap answers true exactly when a merged interval of the
\* query's chromosome shares a base with the query (start < me and ms < end),
\* for every valid query, and each centromere and telomere rectangle drawn
\* has the covered colour exactly in that case.
C2_OverlapIff ==
  /\ Merged =>
       \A c \in RefNames : \A s, e \in 0..(OvCoord + 1) :
         s < e => (check_overlap(bedtool, << c, s, e >>) <=> SharesBase(c, s, e))
  /\ pc = "done" =>
       \A k \in 1..Len(prims) : \A c \in Displayed :
         (IsLandmark(prims[k]) /\ prims[k].x = (Idx(c) - 1) * spacing) =>
           (prims[k].color \in {"red", "green"}
              <=> SharesBase(c, prims[k].y, prims[k].y + prims[k].height))

\* A landmark rectangle drawn in the uncovered colour starts exactly where a
\* merged interval of its chromosome ends.
C2_Witness ==
  /\ pc = "done"
  /\ \E k \in 1..Len(prims) : \E c \in Displayed :
       /\ IsLandmark(prims[k])
       /\ prims[k].x = (Idx(c) - 1) * spacing
       /\ prims[k].color \in {"#ffcccc", "#ccffcc"}
       /\ c \in DOMAIN bed_coverage_dict
       /\ \E i \in 1..Len(bed_coverage_dict[c]) : bed_coverage_dict[c][i][2] = prims[k].y

CytoRows(c) == {i \in 1..Len(cytoband_file) : cytoband_file[i].chr = c}
AcenRows(c) == {i \in CytoRows(c) : cytoband_file[i].gieStain = "acen"}
RectsAt(c, colors) ==
  {k \in 1..Len(prims) :
     /\ prims[k].kind = "Rectangle"
     /\ prims[k].x = (Idx(c) - 1) * spacing
     /\ prims[k].color \in colors}
LabelsOf(c) == {k \in 1..Len(prims) : prims[k].kind = "Text" /\ prims[k].s = c}

\* C6: a chromosome's centromere is (least start, greatest end) over its own
\* acen records; without an acen record it has no centromere entry, nothing
\* fails, and the plot draws its body, telomeres and label but no centromere.
C6_Centromere ==
  /\ error = "none"
  /\ Extracted =>
       \A c \in AllNames :
         IF AcenRows(c) = {} THEN c \notin DOMAIN centromeres
         ELSE /\ c \in DOMAIN centromeres
              /\ \E i \in AcenRows(c) : cytoband_file[i].start = centromeres[c][1]
              /\ \E i \in AcenRows(c) : cytoband_file[i].end = centromeres[c][2]
              /\ \A i \in AcenRows(c) :
                   /\ centromeres[c][1] <= cytoband_file[i].start
                   /\ cytoband_file[i].end <= centromeres[c][2]
  /\ pc = "done" =>
       \A c \in Displayed :
         AcenRows(c) = {} =>
           /\ RectsAt(c, {"red", "#ffcccc"}) = {}
           /\ Cardinality(RectsAt(c, {"lightgray"})) = 1
           /\ Cardinality(LabelsOf(c)) = 1
           /\ CytoRows(c) # {} => Cardinality(RectsAt(c, {"green", "#ccffcc"})) = 2

\* One chromosome has two acen records, the later one starting before the
\* first one, and another displayed chromosome of the table has no acen
\* record.
C6_Witness ==
  /\ pc = "done"
  /\ \E c \in Displayed : \E i, j \in AcenRows(c) :
       /\ i < j
       /\ \A k \in AcenRows(c) : i <= k
       /\ cytoband_file[j].start < cytoband_file[i].start
  /\ \E c \in Displayed : CytoRows(c) # {} /\ AcenRows(c) = {}

\* C7: a chromosome's start telomere is the interval of its first record in
\* table order and its end telomere that of its last record, whatever the
\* coordinates and stains; with a single record the two are equal.
C7_Telomeres ==
  /\ error = "none"
  /\ Extracted =>
       /\ DOMAIN telomeres = {c \in AllNames : CytoRows(c) # {}}
       /\ \A c \in DOMAIN telomeres :
            LET first == SetMin(CytoRows(c))
                last == SetMax(CytoRows(c))
            IN /\ telomeres[c][1] = << cytoband_file[first].start, cytoband_file[first].end >>
               /\ telomeres[c][2] = << cytoband_file[last].start, cytoband_file[last].end >>
               /\ Cardinality(CytoRows(c)) = 1 => telomeres[c][1] = telomeres[c][2]

\* A chromosome's records are out of coordinate order: its last record
\* starts before its first one; another chromosome has a single record.
C7_Witness ==
  /\ Extracted
  /\ \E c \in DOMAIN telomeres : telomeres[c][2][2] < telomeres[c][1][2]
  /\ \E c \in DOMAIN telomeres : Cardinality(CytoRows(c)) = 1

PrimsInColumn(c) ==
  {k \in 1..Len(prims) :
     \/ prims[k].kind = "Rectangle" /\ prims[k].x = (Idx(c) - 1) * spacing
     \/ prims[k].kind = "Text" /\ prims[k].x = (Idx(c) - 1) * spacing + chrom_width \div 2}

\* C9: every primitive sits in the column of a displayed chromosome, the
\* column being the chromosome's index in the canonical list whatever else
\* is present; each displayed chromosome has its body and label there, and
\* its column holds only what its own lengths, intervals and landmarks give.
C9_FixedColumns ==
  pc = "done" =>
    /\ \A k \in 1..Len(prims) : \E c \in Displayed : k \in PrimsInColumn(c)
    /\ \A c \in Displayed :
         /\ \E k \in PrimsInColumn(c) :
              /\ prims[k].kind = "Rectangle" /\ prims[k].color = "lightgray"
              /\ prims[k].y = 0 /\ prims[k].height = chrom_lengths[c]
         /\ \E k \in PrimsInColumn(c) : prims[k].kind = "Text" /\ prims[k].s = c
         /\ Cardinality(PrimsInColumn(c)) =
              2 + (IF c \in DOMAIN bed_coverage_dict THEN Len(bed_coverage_dict[c]) ELSE 0)
                + (IF AcenRows(c) # {} THEN 1 ELSE 0)
                + (IF CytoRows(c) # {} THEN 2 ELSE 0)

\* chr3 is drawn while chr1 is absent from the reference, and the interval
\* file and the cytoband table name chromosomes that are not displayed.
C9_Witness ==
  /\ pc = "done"
  /\ "chr3" \in Displayed
  /\ "chr1" \notin Displayed
  /\ InputChroms \ Displayed # {}
  /\ \E i \in 1..Len(cytoband_file) : cytoband_file[i].chr \notin Displayed

ValidOnly(bed) == SelectSeq(bed, LAMBDA r : r.start < r.end)

\* C4: a record with start >= end is dropped on its own: the run is not
\* aborted by it, and the merged coverage is that of the valid records.
C4_MalformedDropped ==
  /\ error # "BEDToolsError"
  /\ Merged => bed_coverage_dict = CoverageDict(Merge(Sort(ValidOnly(bed_file))))

\* C5: a reference with none of the 24 canonical names ends in a fatal error
\* and the output file is never written.
C5_NoCanonicalIsFatal ==
  (DOMAIN fasta_file \cap Canonical = {}) => (~saved /\ pc # "done")

\* C10: the upper y-limit is the longest displayed chromosome's length plus
\* the fixed margin, whatever other sequences the reference holds.
C10_ScaleOfDisplayed ==
  (pc = "done" /\ Displayed # {}) =>
    ylim = << 0, SetMax({chrom_lengths[c] : c \in Displayed}) * YMarginTenths >>

====
